---- MODULE Spec2Model ----
(***************************************************************************)
(* Model of homework.py: the poll / validate / format / notify loop of     *)
(* main() together with check_tokens, get_api_answer, check_response,      *)
(* parse_status and send_message.                                          *)
(*                                                                         *)
(* Python values are tagged records, so that values of different Python    *)
(* types are never equal: [int |-> 3], [str |-> "a"], [list |-> <<..>>],   *)
(* [dict |-> f] (f a function from keys to tagged values), [null |-> TRUE].*)
(* A text (a Python str built by str.format) is a sequence of tagged       *)
(* values: the template's name followed by the values substituted into it. *)
(* The empty str '' is the empty sequence.                                 *)
(***************************************************************************)
EXTENDS Integers, Sequences, FiniteSets, TLC

VARIABLES
    env,           \* the credentials set in the environment (globals that are not None)
    pc,            \* position of main()
    timestamp,     \* main(): the cursor sent as from_date
    api_answer,    \* main(): the last value returned by get_api_answer, '' before
    message,       \* main(): the text built by the last cycle that built one
    last_message,  \* main(): the text the loop remembers as notified
    bot,           \* observation of bot.send_message calls (see NoBotCall)
    obs,           \* observation of the current cycle (see NoObs)
    call           \* one call of a function on its own: name, arguments, result

vars == <<env, pc, timestamp, api_answer, message, last_message, bot, obs,
          call>>

-----------------------------------------------------------------------------
(* Bounds of the model *)

\* time.time() and current_date range over 0..MaxDate
MaxDate == 1
\* homework names are "1" .. "MaxName"
MaxName == 1

Dates == 0..MaxDate
NameIds == 1..MaxName

-----------------------------------------------------------------------------
(* Python values *)

JInt(n) == [int |-> n]
JStr(s) == [str |-> s]
JList(q) == [list |-> q]
JDict(f) == [dict |-> f]
JNull == [null |-> TRUE]

EmptyDict == [k \in {} |-> JNull]

\* isinstance(v, dict), isinstance(v, list)
IsDict(v) == "dict" \in DOMAIN v
IsList(v) == "list" \in DOMAIN v

\* type(v)
TypeOf(v) == JStr(CHOOSE t \in DOMAIN v : TRUE)

\* bool(v): None, 0, '', [] and {} are false
Truthy(v) ==
    CASE "null" \in DOMAIN v -> FALSE
      [] "int" \in DOMAIN v -> v.int # 0
      [] "str" \in DOMAIN v -> v.str # ""
      [] "list" \in DOMAIN v -> v.list # <<>>
      [] "dict" \in DOMAIN v -> DOMAIN v.dict # {}

\* key in d, d.get(key, default), d[key] for a dict d
HasKey(d, key) == key \in DOMAIN d.dict
Get(d, key, default) == IF HasKey(d, key) THEN d.dict[key] ELSE default

\* template.format(...): the template and the values substituted into it
Format(template, args) == <<JStr(template)>> \o args

\* a call either raises an exception (its type and its str()) or returns
Raise(type, text) == [raise |-> [type |-> type, text |-> text]]
Return(v) == [return |-> v]
Raises(r) == "raise" \in DOMAIN r

\* str(error): a KeyError prints the repr of its argument, the others the argument
StrOf(exc) ==
    IF exc.type = "KeyError"
    THEN <<JStr("'")>> \o exc.text \o <<JStr("'")>>
    ELSE exc.text

-----------------------------------------------------------------------------
(* Program constants *)

OK == 200

REQUIRED_TOKENS == {"TELEGRAM_TOKEN", "PRACTICUM_TOKEN", "TELEGRAM_CHAT_ID"}

HOMEWORK_VERDICTS ==
    [approved |-> "Work checked: the reviewer liked everything. Hooray!",
     reviewing |-> "Work taken for checking by the reviewer.",
     rejected |-> "Work checked: the reviewer has remarks."]

-----------------------------------------------------------------------------
(* check_tokens *)

\* the tokens whose global is None; the call raises ValueError when there is one
tokens_with_none_value(e) == REQUIRED_TOKENS \ e

\* check_tokens raising only when every token is missing
check_tokens_all_missing(e) ==
    IF e = {}
    THEN Raise("ValueError",
               Format("CHECK_TOKENS_ERROR",
                      <<JStr(ToString(tokens_with_none_value(e)))>>))
    ELSE Return(JNull)

check_tokens(e) ==
    IF tokens_with_none_value(e) # {}
    THEN Raise("ValueError",
               Format("CHECK_TOKENS_ERROR",
                      <<JStr(ToString(tokens_with_none_value(e)))>>))
    ELSE Return(JNull)

-----------------------------------------------------------------------------
(* get_api_answer *)

\* url, headers and params of the request
request_params(ts) ==
    <<JStr("ENDPOINT"), JStr("HEADERS"), JDict([from_date |-> ts])>>

\* get_api_answer taking HTTP 400 for a success as well
get_api_answer_accepts_400(ts, http) ==
    IF "exc" \in DOMAIN http
    THEN Raise("ConnectionError",
               Format("API_CONNECTION_ERROR",
                      <<JStr(http.exc)>> \o request_params(ts)))
    ELSE IF http.status_code \in {OK, 400}
    THEN IF "invalid" \in DOMAIN http.body
         THEN Raise("JSONDecodeError", Format("JSONDecodeError", <<>>))
         ELSE IF ~IsDict(http.body)
         THEN Raise("AttributeError",
                    Format("NO_ATTRIBUTE", <<TypeOf(http.body), JStr("get")>>))
         ELSE IF Truthy(Get(http.body, "code", JNull))
                 \/ Truthy(Get(http.body, "error", JNull))
         THEN Raise("NameError",
                    Format("API_ERROR", <<http.body>> \o request_params(ts)))
         ELSE Return(http.body)
    ELSE Raise("ConnectionError",
               Format("API_RESPONSE_ERROR",
                      <<JInt(http.status_code)>> \o request_params(ts)))

\* http is what requests.get did: [exc |-> name] when it raised a
\* RequestException, else [status_code |-> n, body |-> v], v the decoded
\* JSON body or [invalid |-> TRUE] when the body is not JSON
get_api_answer(ts, http) ==
    IF "exc" \in DOMAIN http
    THEN Raise("ConnectionError",
               Format("API_CONNECTION_ERROR",
                      <<JStr(http.exc)>> \o request_params(ts)))
    ELSE IF http.status_code = OK
    THEN LET json_response == http.body IN
         IF "invalid" \in DOMAIN json_response
         THEN Raise("JSONDecodeError", Format("JSONDecodeError", <<>>))
         ELSE IF ~IsDict(json_response)
         THEN Raise("AttributeError",
                    Format("NO_ATTRIBUTE",
                           <<TypeOf(json_response), JStr("get")>>))
         ELSE LET code == Get(json_response, "code", JNull)
                  error == Get(json_response, "error", JNull)
              IN IF Truthy(code) \/ Truthy(error)
                 THEN Raise("NameError",
                            Format("API_ERROR",
                                   <<json_response>> \o request_params(ts)))
                 ELSE Return(json_response)
    ELSE Raise("ConnectionError",
               Format("API_RESPONSE_ERROR",
                      <<JInt(http.status_code)>> \o request_params(ts)))

-----------------------------------------------------------------------------
(* check_response *)

\* check_response without the test that homeworks is a list
check_response_any_homeworks(response) ==
    IF ~IsDict(response)
    THEN Raise("TypeError",
               Format("RESPONSE_TYPE_ERROR", <<TypeOf(response)>>))
    ELSE IF ~HasKey(response, "homeworks")
    THEN Raise("KeyError", Format("NO_HOMEWORKS_IN_RESPONSE_ERROR", <<>>))
    ELSE Return(response.dict["homeworks"])

check_response(response) ==
    IF ~IsDict(response)
    THEN Raise("TypeError",
               Format("RESPONSE_TYPE_ERROR", <<TypeOf(response)>>))
    ELSE IF ~HasKey(response, "homeworks")
    THEN Raise("KeyError", Format("NO_HOMEWORKS_IN_RESPONSE_ERROR", <<>>))
    ELSE LET homeworks == response.dict["homeworks"] IN
         IF ~IsList(homeworks)
         THEN Raise("TypeError",
                    Format("HOMEWORKS_TYPE_ERROR", <<TypeOf(homeworks)>>))
         ELSE Return(homeworks)

-----------------------------------------------------------------------------
(* parse_status *)

\* missing_keys stopping at the first missing key
missing_keys_first_only(homework) ==
    IF ~HasKey(homework, "homework_name") THEN <<"homework_name">>
    ELSE IF ~HasKey(homework, "status") THEN <<"status">>
    ELSE <<>>

\* the keys of ('homework_name', 'status') that are not in the homework, in order
missing_keys(homework) ==
    SelectSeq(<<"homework_name", "status">>,
              LAMBDA key : ~HasKey(homework, key))

\* hash(v) raises TypeError for a list or a dict
Unhashable(v) == "list" \in DOMAIN v \/ "dict" \in DOMAIN v

\* `key in homework` raises TypeError for a homework that is an int or None;
\* `status in HOMEWORK_VERDICTS` is false for every hashable non-key and
\* raises TypeError for an unhashable status
parse_status(homework) ==
    IF ~IsDict(homework)
    THEN Raise("TypeError", Format("NOT_ITERABLE", <<TypeOf(homework)>>))
    ELSE IF missing_keys(homework) # <<>>
    THEN Raise("KeyError",
               Format("HOMEWORK_MISSING_KEYS",
                      <<JList([i \in 1..Len(missing_keys(homework)) |->
                                  JStr(missing_keys(homework)[i])])>>))
    ELSE LET status == homework.dict["status"] IN
         IF Unhashable(status)
         THEN Raise("TypeError", Format("UNHASHABLE_TYPE", <<TypeOf(status)>>))
         ELSE
         IF ~("str" \in DOMAIN status /\ status.str \in DOMAIN HOMEWORK_VERDICTS)
         THEN Raise("ValueError",
                    Format("UNEXPECTED_HOMEWORK_STATUS", <<status>>))
         ELSE Return(Format("HOMEWORK_STATUS_CHANGED_MESSAGE",
                            <<homework.dict["homework_name"],
                              JStr(HOMEWORK_VERDICTS[status.str])>>))

-----------------------------------------------------------------------------
(* send_message *)

\* What the bot has seen: whether bot.send_message was ever called, the text
\* of the last call ('' when there is none), whether that call carried the
\* same text as the call before it, and whether it raised.
NoBotCall == [any |-> FALSE, last |-> <<>>, repeated |-> FALSE, raised |-> FALSE]

\* One call of bot.send_message(text=text), which raises or not.  The
\* exception is caught and logged; send_message returns None either way.
send_message(b, text, raises) ==
    [any |-> TRUE, last |-> text,
     repeated |-> b.any /\ b.last = text,
     raised |-> raises]

-----------------------------------------------------------------------------
(* Inputs: what the API and the messaging transport may do in one cycle *)

Statuses == {"approved", "reviewing", "rejected", "unknown_status"}
RecordKeys == {"homework_name", "status"}

\* homework records with any subset of the two keys
Records ==
    UNION {{JDict([k \in ks |-> IF k = "homework_name"
                                 THEN JStr(ToString(n)) ELSE JStr(s)]) :
               n \in NameIds, s \in Statuses} : ks \in SUBSET RecordKeys}

FullRecords == {h \in Records : DOMAIN h.dict = RecordKeys}

\* lists of homeworks: empty, one element (a record or an int), two elements
HomeworkLists ==
    {<<>>} \cup {<<h>> : h \in Records \cup {JInt(0)}}
           \cup {<<h, JInt(0)>> :
                    h \in {r \in FullRecords : r.dict["status"] = JStr("rejected")}}

\* the dict holding the given optional entries (an absent entry is <<>>)
Body(hw, cd, ind) ==
    JDict([k \in {"homeworks" : x \in 1..Len(hw)}
                 \cup {"current_date" : x \in 1..Len(cd)}
                 \cup {ind[1] : x \in 1..(Len(ind) \div 2)} |->
              CASE k = "homeworks" -> hw[1]
                [] k = "current_date" -> cd[1]
                [] OTHER -> ind[2]])

Absent == <<>>
HomeworksValues == {Absent, <<JNull>>} \cup {<<JList(l)>> : l \in HomeworkLists}
CurrentDates == {Absent} \cup {<<JInt(d)>> : d \in Dates}

\* an embedded error indicator: a `code` or an `error` entry, truthy or falsy
Indicators ==
    {<<"code", JInt(404)>>, <<"code", JInt(0)>>,
     <<"error", JStr("e")>>, <<"error", JStr("")>>}

\* bodies without an indicator, and a delivered record with each indicator
Bodies ==
    {Body(hw, cd, Absent) : hw \in HomeworksValues, cd \in CurrentDates}
    \cup {Body(<<JList(<<h>>)>>, <<JInt(MaxDate)>>, ind) :
             h \in {JDict([homework_name |-> JStr("1"),
                           status |-> JStr("approved")])},
             ind \in Indicators}

\* what requests.get and response.json() may produce
HttpOutcomes ==
    {[exc |-> "RequestException"]}
    \cup {[status_code |-> 400, body |-> JDict(EmptyDict)]}
    \cup {[status_code |-> OK, body |-> b] :
             b \in Bodies \cup {JList(<<>>), [invalid |-> TRUE]}}

-----------------------------------------------------------------------------
(* main *)

\* Observation of one cycle: the cursor, the remembered text and the bot's
\* last text when the cycle began, whether the bot's last call had raised and
\* whether a fetch had succeeded by then, what the first try block did, the
\* current_date of the response fetched in this cycle (Absent when none was
\* fetched or it has none), how many times send_message was called.
NoObs == [ts0 |-> JNull, last0 |-> <<>>, any0 |-> FALSE, sent0 |-> <<>>,
          raised0 |-> FALSE, fetched0 |-> FALSE,
          outcome |-> "none", current_date |-> Absent, sends |-> 0]

\* the current_date entry of the body of an HTTP response, Absent without one
response_date(http) ==
    IF "body" \in DOMAIN http /\ IsDict(http.body)
       /\ HasKey(http.body, "current_date")
    THEN <<http.body.dict["current_date"]>>
    ELSE Absent

\* the first try block of the loop: api_answer and message after it, and
\* which statement ended it
first_try(ts, api, msg, http) ==
    LET fetched == get_api_answer(ts, http) IN
    IF Raises(fetched)
    THEN [api_answer |-> api,
          message |-> Format("EXCEPTION_TEXT", StrOf(fetched.raise)),
          outcome |-> "get_api_answer raised"]
    ELSE LET checked == check_response(fetched.return) IN
         IF Raises(checked)
         THEN [api_answer |-> fetched.return,
               message |-> Format("EXCEPTION_TEXT", StrOf(checked.raise)),
               outcome |-> "check_response raised"]
         ELSE IF Truthy(checked.return)
         THEN LET parsed == parse_status(checked.return.list[1]) IN
              IF Raises(parsed)
              THEN [api_answer |-> fetched.return,
                    message |-> Format("EXCEPTION_TEXT", StrOf(parsed.raise)),
                    outcome |-> "parse_status raised"]
              ELSE [api_answer |-> fetched.return,
                    message |-> parsed.return,
                    outcome |-> "parsed"]
         ELSE [api_answer |-> fetched.return,
               message |-> msg,
               outcome |-> "empty"]

\* second_try with last_message assigned before the comparison
second_try_remember_first(ts, api, msg, last) ==
    [called |-> FALSE, timestamp |-> ts, last_message |-> msg]

\* second_try with the assignment of timestamp after the if statement
second_try_always_moves(ts, api, msg, last) ==
    IF IsDict(api)
    THEN [called |-> msg # <<>> /\ msg # last,
          timestamp |-> Get(api, "current_date", ts),
          last_message |-> msg]
    ELSE [called |-> msg # <<>> /\ msg # last,
          timestamp |-> ts, last_message |-> last]

\* second_try without the assignment of timestamp
second_try_keep_cursor(ts, api, msg, last) ==
    IF msg # <<>> /\ msg # last
    THEN IF IsDict(api)
         THEN [called |-> TRUE, timestamp |-> ts, last_message |-> msg]
         ELSE [called |-> TRUE, timestamp |-> ts, last_message |-> last]
    ELSE [called |-> FALSE, timestamp |-> ts, last_message |-> msg]

\* the second try block of the loop: whether send_message is called, and
\* timestamp and last_message after the block.  api_answer.get raises
\* AttributeError when api_answer is still the str '', which skips the
\* assignment of last_message; `except Exception: pass` swallows it.
second_try(ts, api, msg, last) ==
    IF msg # <<>> /\ msg # last
    THEN IF IsDict(api)
         THEN [called |-> TRUE,
               timestamp |-> Get(api, "current_date", ts),
               last_message |-> msg]
         ELSE [called |-> TRUE, timestamp |-> ts, last_message |-> last]
    ELSE [called |-> FALSE, timestamp |-> ts, last_message |-> msg]

\* no function is called on its own while main() runs
NoCall == [fn |-> "none", args |-> <<>>, result |-> [pending |-> TRUE]]

Init ==
    /\ env \in SUBSET REQUIRED_TOKENS
    /\ pc = "check_tokens"
    /\ timestamp = JNull
    /\ api_answer = JNull
    /\ message = <<>>
    /\ last_message = <<>>
    /\ bot = NoBotCall
    /\ obs = NoObs
    /\ call = NoCall

\* main() up to the loop: check_tokens raises out of main, or the locals
\* are initialised, timestamp to int(time.time())
CheckTokens ==
    /\ pc = "check_tokens"
    /\ IF Raises(check_tokens(env))
       THEN /\ pc' = "terminated"
            /\ UNCHANGED <<timestamp, api_answer, message, last_message>>
       ELSE /\ pc' = "try_fetch"
            /\ \E now \in Dates : timestamp' = JInt(now)
            /\ api_answer' = JStr("")
            /\ message' = <<>>
            /\ last_message' = <<>>
    /\ UNCHANGED <<env, bot, obs, call>>

\* the first try block: fetch, validate, format, or build the error text
Fetch ==
    /\ pc = "try_fetch"
    /\ \E http \in HttpOutcomes :
          LET t == first_try(timestamp, api_answer, message, http) IN
          /\ api_answer' = t.api_answer
          /\ message' = t.message
          /\ obs' = [ts0 |-> timestamp, last0 |-> last_message,
                     any0 |-> bot.any, sent0 |-> bot.last,
                     raised0 |-> bot.any /\ bot.raised,
                     fetched0 |-> IsDict(api_answer),
                     outcome |-> t.outcome,
                     current_date |-> response_date(http),
                     sends |-> 0]
    /\ pc' = "try_notify"
    /\ UNCHANGED <<env, timestamp, last_message, bot, call>>

\* Notify without the second try block's `except Exception: pass`: the
\* AttributeError of ''.get leaves main()
Notify_error_escapes ==
    /\ pc = "try_notify"
    /\ LET n == second_try(timestamp, api_answer, message, last_message) IN
       /\ timestamp' = n.timestamp
       /\ last_message' = n.last_message
       /\ obs' = [obs EXCEPT !.sends = IF n.called THEN 1 ELSE 0]
       /\ IF n.called
          THEN \E raises \in BOOLEAN : bot' = send_message(bot, message, raises)
          ELSE bot' = bot
       /\ pc' = IF n.called /\ ~IsDict(api_answer) THEN "terminated" ELSE "sleep"
    /\ UNCHANGED <<env, api_answer, message, call>>

\* Notify with the bot's exception turned into the loop's error text
Notify_reports_send_failure ==
    /\ pc = "try_notify"
    /\ LET n == second_try(timestamp, api_answer, message, last_message) IN
       /\ timestamp' = n.timestamp
       /\ last_message' = n.last_message
       /\ obs' = [obs EXCEPT !.sends = IF n.called THEN 1 ELSE 0]
       /\ IF n.called
          THEN \E raises \in BOOLEAN :
                  /\ bot' = send_message(bot, message, raises)
                  /\ message' = IF raises
                                THEN Format("EXCEPTION_TEXT",
                                            Format("BOT_SEND_MESSAGE_ERROR",
                                                   message))
                                ELSE message
          ELSE bot' = bot /\ message' = message
    /\ pc' = "sleep"
    /\ UNCHANGED <<env, api_answer, call>>

\* Notify with last_message left alone when the bot raised
Notify_forgets_failed_send ==
    /\ pc = "try_notify"
    /\ LET n == second_try(timestamp, api_answer, message, last_message) IN
       /\ timestamp' = n.timestamp
       /\ obs' = [obs EXCEPT !.sends = IF n.called THEN 1 ELSE 0]
       /\ IF n.called
          THEN \E raises \in BOOLEAN :
                  /\ bot' = send_message(bot, message, raises)
                  /\ last_message' = IF raises THEN last_message
                                     ELSE n.last_message
          ELSE bot' = bot /\ last_message' = n.last_message
    /\ pc' = "sleep"
    /\ UNCHANGED <<env, api_answer, message, call>>

\* the second try block: notify a new text, move the cursor, remember the text
Notify ==
    /\ pc = "try_notify"
    /\ LET n == second_try(timestamp, api_answer, message, last_message) IN
       /\ timestamp' = n.timestamp
       /\ last_message' = n.last_message
       /\ obs' = [obs EXCEPT !.sends = IF n.called THEN 1 ELSE 0]
       /\ IF n.called
          THEN \E raises \in BOOLEAN : bot' = send_message(bot, message, raises)
          ELSE bot' = bot
    /\ pc' = "sleep"
    /\ UNCHANGED <<env, api_answer, message, call>>

\* time.sleep(RETRY_PERIOD), then the next iteration
Sleep ==
    /\ pc = "sleep"
    /\ pc' = "try_fetch"
    /\ obs' = NoObs
    /\ UNCHANGED <<env, timestamp, api_answer, message, last_message, bot,
                   call>>

Next == CheckTokens \/ Fetch \/ Notify \/ Sleep

Spec == Init /\ [][Next]_vars

\* the process runs: a step that can be taken is eventually taken
FairSpec == Spec /\ WF_vars(Next)

TypeOK ==
    /\ env \subseteq REQUIRED_TOKENS
    /\ pc \in {"check_tokens", "terminated", "try_fetch", "try_notify", "sleep"}
    /\ bot.any \in BOOLEAN

-----------------------------------------------------------------------------
(* The functions called on their own, on inputs wider than main() passes *)

\* statuses other than the strings of Statuses
OddStatuses == {JInt(0), JNull, JStr(""), JList(<<>>), JDict(EmptyDict)}

\* arguments of parse_status: the records, records with an odd status, with
\* or without a name, and values that are not dicts
ParseStatusInputs ==
    Records
    \cup {JDict([homework_name |-> JStr(ToString(n)), status |-> s]) :
             n \in NameIds, s \in OddStatuses}
    \cup {JDict([status |-> s]) : s \in OddStatuses}
    \cup {JInt(0), JNull}

\* arguments of check_response: the bodies and values that are not dicts
CheckResponseInputs ==
    Bodies \cup {JList(<<>>), JList(<<JDict(EmptyDict)>>), JStr(""),
                 JStr("homeworks"), JInt(0), JNull}

\* values a `code` or an `error` entry may hold
IndicatorValues ==
    {JInt(404), JInt(0), JStr("e"), JStr(""), JNull, JList(<<>>),
     JDict(EmptyDict)}

\* bodies with a `code` entry, an `error` entry or both
IndicatorBodies ==
    {JDict([homeworks |-> JList(<<>>), code |-> c]) : c \in IndicatorValues}
    \cup {JDict([homeworks |-> JList(<<>>), error |-> e]) :
             e \in IndicatorValues}
    \cup {JDict([code |-> c, error |-> e]) :
             c \in IndicatorValues, e \in IndicatorValues}

\* HTTP status codes besides 200
OtherStatusCodes == {201, 204, 301, 400, 401, 404, 500, 503}

\* what requests.get may produce for get_api_answer called on its own
GetApiAnswerInputs ==
    HttpOutcomes
    \cup {[status_code |-> OK, body |-> b] : b \in IndicatorBodies}
    \cup {[status_code |-> c, body |-> b] :
             c \in OtherStatusCodes,
             b \in {JDict(EmptyDict),
                    JDict([homeworks |-> JList(<<>>),
                           current_date |-> JInt(MaxDate)])}}

CallInit ==
    /\ env = REQUIRED_TOKENS
    /\ pc = "call"
    /\ timestamp = JNull
    /\ api_answer = JNull
    /\ message = <<>>
    /\ last_message = <<>>
    /\ bot = NoBotCall
    /\ obs = NoObs
    /\ call \in {[fn |-> "get_api_answer", args |-> <<JInt(d), http>>,
                  result |-> [pending |-> TRUE]] :
                    d \in Dates, http \in GetApiAnswerInputs}
           \cup {[fn |-> "check_response", args |-> <<r>>,
                  result |-> [pending |-> TRUE]] : r \in CheckResponseInputs}
           \cup {[fn |-> "parse_status", args |-> <<h>>,
                  result |-> [pending |-> TRUE]] : h \in ParseStatusInputs}

\* the frame of a call: it returns, and touches neither main()'s state nor
\* its own arguments
Returned(result) ==
    /\ pc' = "returned"
    /\ call' = [call EXCEPT !.result = result]
    /\ UNCHANGED <<env, timestamp, api_answer, message, last_message, bot, obs>>

CallGetApiAnswer ==
    /\ pc = "call"
    /\ call.fn = "get_api_answer"
    /\ Returned(get_api_answer(call.args[1], call.args[2]))

CallCheckResponse ==
    /\ pc = "call"
    /\ call.fn = "check_response"
    /\ Returned(check_response(call.args[1]))

CallParseStatus ==
    /\ pc = "call"
    /\ call.fn = "parse_status"
    /\ Returned(parse_status(call.args[1]))

CallNext == CallGetApiAnswer \/ CallCheckResponse \/ CallParseStatus

CallSpec == CallInit /\ [][CallNext]_vars

-----------------------------------------------------------------------------
(* Properties.  A cycle is complete when pc = "sleep"; obs then describes it. *)

LoopPcs == {"try_fetch", "try_notify", "sleep"}
ErrorOutcomes ==
    {"get_api_answer raised", "check_response raised", "parse_status raised"}

\* the cycle built a text (a status or an error text) that is not the text of
\* the latest send_message call before the cycle
NewText ==
    /\ pc = "sleep"
    /\ obs.outcome # "empty"
    /\ (~obs.any0 \/ message # obs.sent0)

\* C1: no two consecutive calls of send_message carry the same text.
C1_NoConsecutiveDuplicateSend == ~bot.repeated

\* C2: a cycle whose fetch and validation succeed with an empty homework
\* list does not call send_message.
C2_EmptyCycleDoesNotSend ==
    (pc = "sleep" /\ obs.outcome = "empty") => obs.sends = 0

\* C3: a cycle whose fetch and validation succeed with an empty homework
\* list leaves the cursor as it was.
C3_EmptyCycleKeepsCursor ==
    (pc = "sleep" /\ obs.outcome = "empty") => timestamp = obs.ts0

\* C4: a cycle in which get_api_answer, check_response or parse_status
\* raised leaves the cursor as it was.
C4_ErrorCycleKeepsCursor ==
    (pc = "sleep" /\ obs.outcome \in ErrorOutcomes) => timestamp = obs.ts0

\* C5: a cycle in which bot.send_message raised leaves the cursor as it was.
C5_FailedSendKeepsCursor ==
    (pc = "sleep" /\ obs.sends = 1 /\ bot.raised) => timestamp = obs.ts0

\* C6: the cursor after a cycle is never smaller than the cursor before it.
C6_CursorNeverDecreases ==
    pc = "sleep" => timestamp.int >= obs.ts0.int

\* C7: after every cycle last_message is the text of the latest
\* send_message call, or '' when there has been none.
C7_LastMessageIsLastSent ==
    pc = "sleep" => last_message = bot.last

\* C8: once check_tokens has passed, main() never leaves the loop, and in
\* the loop it reaches the sleep again and again and fetches again and again.
C8_LoopNeverEnds ==
    /\ [][(pc \in LoopPcs) => (pc' \in LoopPcs)]_vars
    /\ []<>(pc \notin LoopPcs \/ pc = "sleep")
    /\ []<>(pc \notin LoopPcs \/ pc = "try_fetch")

\* a cycle in which the fetch failed before any fetch had succeeded, the error
\* text was handed to a bot that raised, and the loop still reached the sleep
C8_Witness ==
    /\ pc = "sleep"
    /\ obs.outcome = "get_api_answer raised"
    /\ ~IsDict(api_answer)
    /\ obs.sends = 1
    /\ bot.raised

\* C9: a cycle that builds a text different from the text of the latest
\* send_message call (or any text when there has been no call) calls
\* send_message exactly once, with that text.
C9_NewTextIsSentOnce ==
    NewText => (obs.sends = 1 /\ bot.last = message)

\* a text is sent after a different text had been sent, which the loop
\* remembered
C9_Witness ==
    /\ NewText
    /\ obs.any0
    /\ obs.last0 = obs.sent0
    /\ obs.sends = 1
    /\ bot.last = message

\* C10: after a cycle that fetched, validated and formatted a record into a
\* text different from the last sent one and whose send succeeded, the cursor
\* is the response's current_date when it has one and the previous cursor
\* otherwise, and last_message is the text sent.
C10_DeliveredStatusMovesCursor ==
    (NewText /\ obs.outcome = "parsed" /\ obs.sends = 1 /\ ~bot.raised)
        => /\ timestamp = (IF obs.current_date = Absent
                           THEN obs.ts0 ELSE obs.current_date[1])
           /\ last_message = bot.last
           /\ bot.last = message

\* cursor 0, a response with a record and current_date MaxDate, delivered
C10_Witness ==
    /\ NewText
    /\ obs.outcome = "parsed"
    /\ obs.sends = 1
    /\ ~bot.raised
    /\ obs.ts0 = JInt(0)
    /\ obs.current_date = <<JInt(MaxDate)>>
    /\ timestamp = JInt(MaxDate)
    /\ last_message = message

\* C11: with a required token missing main() stops in check_tokens and never
\* fetches, notifies or sleeps; with all three set it never stops.
C11_MissingTokenStopsBeforeLoop ==
    /\ (env # REQUIRED_TOKENS) =>
           /\ pc \in {"check_tokens", "terminated"}
           /\ bot = NoBotCall
           /\ obs = NoObs
           /\ api_answer = JNull
    /\ (env = REQUIRED_TOKENS) => pc \in {"check_tokens"} \cup LoopPcs

\* main() has stopped with exactly one of the three tokens missing
C11_Witness ==
    /\ pc = "terminated"
    /\ Cardinality(env) = 2
    /\ bot = NoBotCall

\* a finished call of the function fn on its own
Called(fn) == pc = "returned" /\ call.fn = fn

\* the HTTP response has status 200 and a dict body with a `code` or an
\* `error` entry
HasIndicator(http) ==
    /\ "status_code" \in DOMAIN http
    /\ http.status_code = OK
    /\ IsDict(http.body)
    /\ (HasKey(http.body, "code") \/ HasKey(http.body, "error"))

\* C12: get_api_answer raises the API error for every 200 response whose
\* body has a `code` or an `error` entry, whatever its value.
C12_IndicatorAlwaysFails ==
    (Called("get_api_answer") /\ HasIndicator(call.args[2]))
        => (Raises(call.result) /\ call.result.raise.type = "NameError")

\* the text carries the value v
Carries(text, v) == \E i \in 1..Len(text) : text[i] = v

\* C13: get_api_answer raises, with the status code in the error, for every
\* response whose status is not 200, and raises when the request itself
\* failed; it never returns a payload then.
C13_OnlyStatus200Returns ==
    Called("get_api_answer") =>
        LET http == call.args[2] IN
        /\ ("exc" \in DOMAIN http) => Raises(call.result)
        /\ ("status_code" \in DOMAIN http /\ http.status_code # OK) =>
               /\ Raises(call.result)
               /\ call.result.raise.type = "ConnectionError"
               /\ Carries(call.result.raise.text, JInt(http.status_code))

\* a 400 response with a well-formed body was refused
C13_Witness ==
    /\ Called("get_api_answer")
    /\ "status_code" \in DOMAIN call.args[2]
    /\ call.args[2].status_code = 400
    /\ IsDict(call.args[2].body)
    /\ HasKey(call.args[2].body, "homeworks")
    /\ Raises(call.result)
    /\ Carries(call.result.raise.text, JInt(400))

\* C14: when bot.send_message raises, send_message returns to the loop, which
\* goes on to the sleep with its message untouched; no text describing a
\* send failure is ever built or sent.
C14_SendFailureStaysSilent ==
    /\ [][(pc = "try_notify") =>
             /\ pc' = "sleep"
             /\ message' = message
             /\ (bot' # bot => bot'.last = message)]_vars
    /\ [](/\ ~Carries(message, JStr("BOT_SEND_MESSAGE_ERROR"))
          /\ ~Carries(bot.last, JStr("BOT_SEND_MESSAGE_ERROR")))

\* a cycle whose send raised has reached the sleep with the text it built
C14_Witness ==
    /\ pc = "sleep"
    /\ obs.sends = 1
    /\ bot.raised
    /\ bot.last = message
    /\ IsDict(api_answer)

\* C15: check_response raises for a value that is not a dict, for a dict
\* without `homeworks` and for a `homeworks` that is not a list; otherwise it
\* returns the value under `homeworks`, and it never changes its argument.
C15_CheckResponseContract ==
    /\ [](Called("check_response") =>
            LET response == call.args[1] IN
            IF ~IsDict(response) THEN Raises(call.result)
            ELSE IF "homeworks" \notin DOMAIN response.dict
                 THEN Raises(call.result)
            ELSE IF "list" \notin DOMAIN response.dict["homeworks"]
                 THEN Raises(call.result)
            ELSE call.result = [return |-> response.dict["homeworks"]])
    /\ [][call'.args = call.args]_vars

\* a response with an empty list of homeworks and a current_date was accepted
C15_Witness ==
    /\ Called("check_response")
    /\ IsDict(call.args[1])
    /\ HasKey(call.args[1], "current_date")
    /\ call.result = [return |-> JList(<<>>)]

\* the record has both fields
HasBothFields(homework) == RecordKeys \subseteq DOMAIN homework.dict

\* the record's status is one of the keys of the verdict table
KnownStatus(homework) ==
    \E s \in {"approved", "reviewing", "rejected"} :
        homework.dict["status"] = JStr(s)

\* C16: parse_status returns exactly for records with both fields and a
\* status of the verdict table, and then the template filled with the name
\* and the verdict; for a record with both fields and any other status it
\* raises the unexpected-status error naming the status.
C16_ParseStatusContract ==
    (Called("parse_status") /\ IsDict(call.args[1])) =>
        LET homework == call.args[1] IN
        /\ ~Raises(call.result)
               <=> (HasBothFields(homework) /\ KnownStatus(homework))
        /\ (HasBothFields(homework) /\ KnownStatus(homework)) =>
               call.result =
                   [return |->
                       <<JStr("HOMEWORK_STATUS_CHANGED_MESSAGE"),
                         homework.dict["homework_name"],
                         JStr(HOMEWORK_VERDICTS[homework.dict["status"].str])>>]
        /\ (HasBothFields(homework) /\ ~KnownStatus(homework)) =>
               /\ Raises(call.result)
               /\ call.result.raise.type = "ValueError"
               /\ call.result.raise.text =
                      <<JStr("UNEXPECTED_HOMEWORK_STATUS"),
                        homework.dict["status"]>>

\* the keys the missing-field error names
NamedKeys(exc) ==
    IF Len(exc.text) = 2 /\ exc.text[1] = JStr("HOMEWORK_MISSING_KEYS")
       /\ IsList(exc.text[2])
    THEN {exc.text[2].list[i] : i \in 1..Len(exc.text[2].list)}
    ELSE {}

\* C17: for a record without the name, the status or both, parse_status
\* raises the missing-field error naming exactly the absent keys, whatever
\* the status is.
C17_MissingFieldsComeFirst ==
    (Called("parse_status") /\ IsDict(call.args[1])
        /\ ~HasBothFields(call.args[1])) =>
        /\ Raises(call.result)
        /\ call.result.raise.type = "KeyError"
        /\ NamedKeys(call.result.raise) =
               {JStr(k) : k \in RecordKeys \ DOMAIN call.args[1].dict}

\* a record without a name and with an unrecognised status was refused for
\* the missing name
C17_Witness ==
    /\ Called("parse_status")
    /\ call.args[1] = JDict([status |-> JStr("unknown_status")])
    /\ Raises(call.result)
    /\ NamedKeys(call.result.raise) = {JStr("homework_name")}

\* C18: a cycle that does not call send_message leaves the cursor as it was.
C18_NoSendNoCursorMove ==
    (pc = "sleep" /\ obs.sends = 0) => timestamp = obs.ts0

\* a record was formatted into the text already notified: nothing is sent
\* and the cursor stays although the response carries another current_date
C18_Witness ==
    /\ pc = "sleep"
    /\ obs.sends = 0
    /\ obs.outcome = "parsed"
    /\ message = obs.last0
    /\ obs.current_date # Absent
    /\ obs.current_date # <<obs.ts0>>
    /\ timestamp = obs.ts0

\* C19: after a fetch has succeeded, a text whose send raised is remembered
\* in last_message like a delivered one, and a following cycle that ends
\* with the same text does not call send_message.
C19_FailedSendIsNotRetried ==
    /\ (pc = "sleep" /\ obs.sends = 1 /\ bot.raised /\ IsDict(api_answer))
           => last_message = bot.last
    /\ (pc = "sleep" /\ obs.fetched0 /\ obs.raised0 /\ message = obs.sent0)
           => obs.sends = 0

\* the cycle after a failed send built the same text again and sent nothing
C19_Witness ==
    /\ pc = "sleep"
    /\ obs.fetched0
    /\ obs.raised0
    /\ obs.outcome \notin {"empty", "none"}
    /\ message = obs.sent0
    /\ obs.sends = 0
    /\ bot.raised

====
